---- MODULE Spec2Model ----
(***************************************************************************)
(* Model of the delivery-receipt extractor (src/parsing_session).          *)
(*                                                                         *)
(* Text is a sequence of one-character strings.  Python's None is the      *)
(* value None below, which is no text.  An int is <<"int", n>>; a float    *)
(* is <<"float", m, e>>, standing for m / 10^e with m not divisible by 10  *)
(* unless e = 0.                                                           *)
(***************************************************************************)
EXTENDS Integers, Sequences, FiniteSets, TLC

VARIABLES pc, address_lines, result,
          soup, restaurant_info, restaurant_block, client_info, client_block,
          order_info, order_fallback,
          items, item_i, totals, tr_i,
          filename, date_info,
          directory, html_files, file_i, all_orders, printed, output_file,
          clean_in, clean_flag, clean_out, clean_again,
          site, current_url, page_count, all_quotes, top_ten_tags, visited, returned,
          channel, bot_user_id, processed_messages, history_result, msg_i, replies,
          html_file_path, json_data

addrVars == <<address_lines, result>>
partyVars == <<restaurant_info, restaurant_block, client_info, client_block>>
orderVars == <<order_info, order_fallback>>
rowVars == <<items, item_i, totals, tr_i>>
dateVars == <<filename, date_info>>
batchVars == <<directory, html_files, file_i, all_orders, printed, output_file>>
cleanVars == <<clean_in, clean_flag, clean_out, clean_again>>
crawlVars == <<site, current_url, page_count, all_quotes, top_ten_tags, visited, returned>>
slackVars == <<channel, bot_user_id, processed_messages, history_result, msg_i, replies>>
recordVars == <<html_file_path, json_data>>
\* the variables of the runs that stand apart from the extractors
scriptVars == <<cleanVars, crawlVars, slackVars, recordVars>>
vars == <<pc, address_lines, result,
          soup, restaurant_info, restaurant_block, client_info, client_block,
          order_info, order_fallback,
          items, item_i, totals, tr_i,
          filename, date_info,
          directory, html_files, file_i, all_orders, printed, output_file,
          clean_in, clean_flag, clean_out, clean_again,
          site, current_url, page_count, all_quotes, top_ten_tags, visited, returned,
          channel, bot_user_id, processed_messages, history_result, msg_i, replies,
          html_file_path, json_data>>

None == <<"None">>

(***************************************************************************)
(* Character classes of Python's re, on the characters the model uses.     *)
(***************************************************************************)
Digits == {"0", "1", "2", "3", "4", "5", "6", "7", "8", "9"}
Lower == {"a", "b", "c", "d", "e", "f", "g", "h", "i", "j", "k", "l", "m",
          "n", "o", "p", "q", "r", "s", "t", "u", "v", "w", "x", "y", "z"}
Upper == {"A", "B", "C", "D", "E", "F", "G", "H", "I", "J", "K", "L", "M",
          "N", "O", "P", "Q", "R", "S", "T", "U", "V", "W", "X", "Y", "Z"}
Whitespace == {" ", "\t"}

IsDigit(c) == c \in Digits
IsAlpha(c) == c \in Lower \cup Upper
IsSpace(c) == c \in Whitespace
IsAlphaSpace(c) == IsAlpha(c) \/ IsSpace(c)

\* bool(x) of Python for a text or None
Truthy(x) == x # None /\ x # <<>>

RECURSIVE Flatten(_)
Flatten(ss) == IF ss = <<>> THEN <<>> ELSE Head(ss) \o Flatten(Tail(ss))

\* str.strip()
Strip(s) ==
    LET lead == Cardinality({i \in 1..Len(s) : \A j \in 1..i : IsSpace(s[j])})
        trail == Cardinality({i \in 1..Len(s) : \A j \in i..Len(s) : IsSpace(s[j])})
    IN IF lead = Len(s) THEN <<>> ELSE SubSeq(s, lead + 1, Len(s) - trail)

\* text without the characters marked ""
Unmarked(marked) == SelectSeq(marked, LAMBDA c : c # "")

\* re.sub(r'\s+', ' ', text)
CollapseWs(s) ==
    Unmarked([i \in 1..Len(s) |->
                IF ~IsSpace(s[i]) THEN s[i]
                ELSE IF i > 1 /\ IsSpace(s[i - 1]) THEN "" ELSE " "])

(***************************************************************************)
(* clean_text: NFC, optional emoji removal, whitespace collapse, strip.    *)
(* A character outside ASCII is written as a name: "e_acute" (U+00E9),     *)
(* "acute" (the combining accent U+0301, which composes with a preceding   *)
(* "e"), "emoji" (a character of the emoji ranges), "deg" (U+00B0) and     *)
(* "EUR" (U+20AC).                                                         *)
(***************************************************************************)
Combining == "acute"
EmojiChars == {"emoji"}

NFC(s) ==
    Unmarked([i \in 1..Len(s) |->
                IF s[i] = "e" /\ i < Len(s) /\ s[i + 1] = Combining
                THEN "e_acute"
                ELSE IF s[i] = Combining /\ i > 1 /\ s[i - 1] = "e"
                     THEN "" ELSE s[i]])

StripEmoji(s) == SelectSeq(s, LAMBDA c : c \notin EmojiChars)

clean_text(text, remove_emojis) ==
    IF ~Truthy(text) THEN text
    ELSE Strip(CollapseWs(IF remove_emojis THEN StripEmoji(NFC(text))
                                           ELSE NFC(text)))

(***************************************************************************)
(* parse_address_parts                                                     *)
(***************************************************************************)
PostalLen == 5

AllDigits(s) == \A i \in 1..Len(s) : IsDigit(s[i])

\* re.search(r'(\d{5})', line): start of the leftmost match, 0 if none
PostalStart(line) ==
    LET starts == {i \in 1..(Len(line) - PostalLen + 1) :
                      AllDigits(SubSeq(line, i, i + PostalLen - 1))}
    IN IF starts = {} THEN 0
       ELSE CHOOSE i \in starts : \A j \in starts : i <= j

\* re.search(r'\d{5}([A-Za-z\s]+)$', line): group 1 of the leftmost match,
\* None if none
CityGroup(line) ==
    LET starts == {i \in 1..(Len(line) - PostalLen) :
                      /\ AllDigits(SubSeq(line, i, i + PostalLen - 1))
                      /\ \A j \in (i + PostalLen)..Len(line) :
                            IsAlphaSpace(line[j])}
    IN IF starts = {} THEN None
       ELSE LET i == CHOOSE i \in starts : \A j \in starts : i <= j
            IN SubSeq(line, i + PostalLen, Len(line))

\* the first loop: stops at the first line with a postal code
RECURSIVE PostalScan(_, _)
PostalScan(lines, res) ==
    IF lines = <<>> THEN res
    ELSE LET line == Head(lines)
             p == PostalStart(line)
         IN IF p # 0
            THEN LET r1 == [res EXCEPT
                              !.postal_code = SubSeq(line, p, p + PostalLen - 1)]
                 IN IF CityGroup(line) # None
                    THEN [r1 EXCEPT !.city = Strip(CityGroup(line))]
                    ELSE r1
            ELSE PostalScan(Tail(lines), res)

\* re.match(r'^[A-Za-z\s]+$', cleaned_line)
PureLetters(s) == s # <<>> /\ \A i \in 1..Len(s) : IsAlphaSpace(s[i])

\* the second loop: first remaining line of letters only
RECURSIVE CityScan(_, _)
CityScan(lines, res) ==
    IF lines = <<>> THEN res
    ELSE LET cleaned_line == clean_text(Head(lines), FALSE)
         IN IF PostalStart(cleaned_line) = 0 /\ PureLetters(cleaned_line)
            THEN [res EXCEPT !.city = cleaned_line]
            ELSE CityScan(Tail(lines), res)

EmptyAddress == [address |-> None, city |-> None, postal_code |-> None]

\* mutant: the letters-only fallback runs first
parse_address_parts_fallback_first(lines) ==
    IF lines = <<>> THEN EmptyAddress
    ELSE LET r0 == [EmptyAddress EXCEPT !.address = clean_text(lines[1], FALSE)]
             r1 == CityScan(Tail(lines), r0)
         IN IF ~Truthy(r1.city) THEN PostalScan(Tail(lines), r1)
            ELSE [r1 EXCEPT !.postal_code = PostalScan(Tail(lines), r0).postal_code]

parse_address_parts(lines) ==
    IF lines = <<>> THEN EmptyAddress
    ELSE LET r0 == [EmptyAddress EXCEPT !.address = clean_text(lines[1], FALSE)]
             r1 == PostalScan(Tail(lines), r0)
         IN IF ~Truthy(r1.city) THEN CityScan(Tail(lines), r1) ELSE r1

(***************************************************************************)
(* Address lines of the model: a street line and up to MaxLines further    *)
(* lines, each made of two tokens (one of which may be empty), and a few   *)
(* longer ones.                                                            *)
(***************************************************************************)
MaxLines == 2

AddrTokens == { <<"7", "5", "0", "0", "1">>, <<"7">>, <<"P", "a">>,
                <<" ", "\t", "L", "y">>, <<" ">> }

LongLines == { <<"7", "5", "0", "0", "1", " ", "L", "y", "-">>,
               <<"7", "5", "0", "0", "1", " ", "L", "y", "6", "9", "0", "0", "2", "P", "a">>,
               <<"P", "a", " ", "7", "5", "0", "0", "1">> }

AddrLineSet == {a \o b : a \in AddrTokens \cup {<<>>}, b \in AddrTokens \cup {<<>>}}
                  \cup LongLines

StreetSet == { <<"1", "2", " ", "R", "u", "e">>, <<" ", "5", " ", " ", "A", "v", ".">> }

RECURSIVE SeqsUpTo(_, _)
SeqsUpTo(S, n) ==
    IF n = 0 THEN {<<>>}
    ELSE LET shorter == SeqsUpTo(S, n - 1)
         IN shorter \cup {<<x>> \o xs : x \in S, xs \in {y \in shorter : Len(y) = n - 1}}

AddrIdle == address_lines = <<>> /\ result = None
PartyIdle ==
    /\ restaurant_info = None /\ restaurant_block = 0
    /\ client_info = None /\ client_block = 0

OrderIdle == order_info = None /\ order_fallback = FALSE

RowsIdle == items = <<>> /\ item_i = 0 /\ totals = None /\ tr_i = 0
DateIdle == filename = None /\ date_info = None
BatchIdle ==
    /\ directory = <<>> /\ html_files = <<>> /\ file_i = 0
    /\ all_orders = <<>> /\ printed = <<>> /\ output_file = <<>>


CleanIdle == clean_in = None /\ clean_flag = FALSE /\ clean_out = None /\ clean_again = None
CrawlIdle ==
    /\ site = <<>> /\ current_url = None /\ page_count = 0 /\ all_quotes = <<>>
    /\ top_ten_tags = <<>> /\ visited = <<>> /\ returned = None
SlackIdle ==
    /\ channel = <<>> /\ bot_user_id = None /\ processed_messages = {}
    /\ history_result = <<>> /\ msg_i = 0 /\ replies = <<>>
RecordIdle == html_file_path = None /\ json_data = None
\* the runs that stand apart from the extractors have not started
ScriptsIdle == CleanIdle /\ CrawlIdle /\ SlackIdle /\ RecordIdle

\* soup.find('table', role='listitem') found nothing
NoTable == [found |-> FALSE, rows |-> <<>>]
ListTable(rows) == [found |-> TRUE, rows |-> rows]

\* a document with none of the queried elements
EmptySoup == [tables |-> <<>>, h2_tags |-> <<>>, body |-> <<>>,
              list_item_table |-> NoTable, all_trs |-> <<>>]

\* ["12 Rue de Paris", "75001 Paris"] and ["5 Av. Victor Hugo", "Lyon"]
ExampleParis == << <<"1", "2", " ", "R", "u", "e", " ", "d", "e", " ", "P", "a", "r", "i", "s">>,
                   <<"7", "5", "0", "0", "1", " ", "P", "a", "r", "i", "s">> >>
ExampleLyon == << <<"5", " ", "A", "v", ".", " ", "V", "i", "c", "t", "o", "r", " ", "H", "u", "g", "o">>,
                  <<"L", "y", "o", "n">> >>

InitAddr ==
    /\ pc = "parse_address_parts"
    /\ address_lines \in {<<>>, ExampleParis, ExampleLyon} \cup
          {<<st>> \o rest : st \in StreetSet, rest \in SeqsUpTo(AddrLineSet, MaxLines)}
    /\ result = None
    /\ soup = EmptySoup
    /\ PartyIdle
    /\ OrderIdle
    /\ RowsIdle
    /\ DateIdle
    /\ BatchIdle
    /\ ScriptsIdle

ParseAddress ==
    /\ pc = "parse_address_parts"
    /\ result' = parse_address_parts(address_lines)
    /\ pc' = "done"
    /\ UNCHANGED <<address_lines, soup, partyVars, orderVars, rowVars, dateVars, batchVars, scriptVars>>

NextAddr == ParseAddress

SpecAddr == InitAddr /\ [][NextAddr]_vars

RECURSIVE TrailingAlpha(_)
TrailingAlpha(s) ==
    IF s # <<>> /\ IsAlphaSpace(s[Len(s)])
    THEN TrailingAlpha(SubSeq(s, 1, Len(s) - 1)) \o <<s[Len(s)]>>
    ELSE <<>>

HasFiveDigits(line) ==
    \E i \in 1..(Len(line) - 4) : \A k \in 0..4 : IsDigit(line[i + k])

\* the trimmed letters-and-spaces tail of a line that follows five digits,
\* None when the line has no such tail or the tail is blank
TrailingCity(line) ==
    LET t == TrailingAlpha(line)
        n == Len(line) - Len(t)
    IN IF n >= 5 /\ (\A k \in (n - 4)..n : IsDigit(line[k])) /\ Strip(t) # <<>>
       THEN Strip(t) ELSE None

IsLettersLine(line) ==
    /\ \E i \in 1..Len(line) : IsAlpha(line[i])
    /\ \A i \in 1..Len(line) : IsAlphaSpace(line[i])

FirstWhere(lines, P(_)) ==
    IF \E i \in 1..Len(lines) : P(lines[i])
    THEN (CHOOSE i \in 1..Len(lines) : P(lines[i]) /\ \A j \in 1..(i - 1) : ~P(lines[j]))
    ELSE 0

\* C1: the city is the trailing text of the first postal-code line when that
\* line has one, whatever letters-only lines the list holds; the
\* letters-only fallback decides the city only otherwise; the two example
\* lists give 75001/Paris and null/Lyon.
C1_PostalCityPriority ==
    (pc = "done" /\ address_lines # <<>>) =>
        LET rest == Tail(address_lines)
            p == FirstWhere(rest, HasFiveDigits)
            f == FirstWhere(rest, IsLettersLine)
            adjacent == IF p = 0 THEN None ELSE TrailingCity(rest[p])
        IN /\ adjacent # None => result.city = adjacent
           /\ (adjacent = None /\ f # 0) =>
                  result.city = Strip(CollapseWs(rest[f]))
           /\ (adjacent = None /\ f = 0) => ~Truthy(result.city)
           /\ address_lines = ExampleParis =>
                  /\ result.postal_code = <<"7", "5", "0", "0", "1">>
                  /\ result.city = <<"P", "a", "r", "i", "s">>
           /\ address_lines = ExampleLyon =>
                  /\ result.postal_code = None
                  /\ result.city = <<"L", "y", "o", "n">>

\* a postal-code line with a trailing city after an earlier letters-only line
C1_Witness ==
    /\ pc = "done" /\ Len(address_lines) = 3
    /\ IsLettersLine(address_lines[2])
    /\ TrailingCity(address_lines[3]) # None
    /\ result.city = TrailingCity(address_lines[3])
    /\ result.city # Strip(CollapseWs(address_lines[2]))

(***************************************************************************)
(* extract_restaurant_info and extract_client_info.                        *)
(* A table of class 'fluid' is a record: markup is the set of the          *)
(* substrings of str(table) the code tests for, bold the texts of its      *)
(* <p> tags styled font-weight:bolder and muted those of its <p> tags      *)
(* styled color:#828585, in document order.                                *)
(***************************************************************************)
NameLimit == 100

StartsWith(s, c) == s # <<>> /\ s[1] = c

\* tag.get_text(strip=True) followed by clean_text
TagText(p) == clean_text(Strip(p), FALSE)

\* the loop over the muted <p> tags: address lines and telephone
RECURSIVE AddressLoop(_, _)
AddressLoop(next_ps, acc) ==
    IF next_ps = <<>> THEN acc
    ELSE LET addr_part == TagText(Head(next_ps))
         IN AddressLoop(Tail(next_ps),
               IF Truthy(addr_part) /\ ~StartsWith(addr_part, "+")
               THEN [acc EXCEPT !.lines = Append(@, addr_part)]
               ELSE IF Truthy(addr_part) /\ StartsWith(addr_part, "+")
                    THEN [acc EXCEPT !.telephone = addr_part]
                    ELSE acc)

EmptyParty == [nom |-> None, address |-> None, city |-> None,
               postal_code |-> None, telephone |-> None]

FillParty(info, nom, table) ==
    LET acc == AddressLoop(table.muted, [lines |-> <<>>, telephone |-> None])
        address_parts == parse_address_parts(acc.lines)
    IN [nom |-> nom, telephone |-> acc.telephone,
        address |-> address_parts.address, city |-> address_parts.city,
        postal_code |-> address_parts.postal_code]

\* 'align="left"' in str(table) or not 'align="right"' in str(table)
RestaurantSide(table) ==
    "align=left" \in table.markup \/ "align=right" \notin table.markup

\* 'align="right"' in str(table) or 'text-align:right' in str(table)
ClientSide(table) ==
    "align=right" \in table.markup \/ "text-align:right" \in table.markup

RECURSIVE RestaurantLoop(_, _)
RestaurantLoop(tables, k) ==
    IF k > Len(tables) THEN [info |-> EmptyParty, block |-> 0]
    ELSE LET table == tables[k]
             text == IF table.bold = <<>> THEN None ELSE TagText(table.bold[1])
         IN IF /\ table.bold # <<>>
               /\ Truthy(text) /\ Len(text) < NameLimit
               /\ RestaurantSide(table)
            THEN [info |-> FillParty(EmptyParty, text, table), block |-> k]
            ELSE RestaurantLoop(tables, k + 1)

extract_restaurant_info(sp) == RestaurantLoop(sp.tables, 1)

RECURSIVE ClientLoop(_, _)
ClientLoop(tables, k) ==
    IF k > Len(tables) THEN [info |-> EmptyParty, block |-> 0]
    ELSE LET table == tables[k]
             nom == IF table.bold = <<>> THEN None ELSE TagText(table.bold[1])
         IN IF ClientSide(table) /\ table.bold # <<>> /\ Truthy(nom)
            THEN [info |-> FillParty(EmptyParty, nom, table), block |-> k]
            ELSE ClientLoop(tables, k + 1)

\* s[i..] starts with sub
MatchAt(s, i, sub) ==
    /\ i + Len(sub) - 1 <= Len(s)
    /\ \A k \in 1..Len(sub) : s[i + k - 1] = sub[k]

\* sub in s
Contains(s, sub) == \E i \in 1..(Len(s) + 1) : MatchAt(s, i, sub)

\* s.replace(old, new), old not empty
RECURSIVE Replace(_, _, _)
Replace(s, old, new) ==
    IF s = <<>> THEN <<>>
    ELSE IF MatchAt(s, 1, old)
         THEN new \o Replace(SubSeq(s, Len(old) + 1, Len(s)), old, new)
         ELSE <<Head(s)>> \o Replace(Tail(s), old, new)

Greeting == <<"E", "x", "c", "e", "l", "l", "e", "n", "t", " ",
              "c", "h", "o", "i", "x">>

\* the heading fallback of extract_client_info
RECURSIVE GreetingLoop(_, _)
GreetingLoop(h2_tags, info) ==
    IF h2_tags = <<>> THEN info
    ELSE LET text == TagText(Head(h2_tags))
         IN IF text # None /\ Contains(text, Greeting)
            THEN [info EXCEPT !.nom =
                    clean_text(Strip(Replace(text, Greeting \o <<",">>, <<>>)), FALSE)]
            ELSE GreetingLoop(Tail(h2_tags), info)

extract_client_info(sp) ==
    LET r == ClientLoop(sp.tables, 1)
    IN IF ~Truthy(r.info.nom)
       THEN [r EXCEPT !.info = GreetingLoop(sp.h2_tags, r.info)]
       ELSE r

(***************************************************************************)
(* Documents of the party extractors: up to MaxTables info tables.         *)
(***************************************************************************)
MaxTables == 2

Rep(c, n) == [i \in 1..n |-> c]

MarkupSet == { {}, {"align=left"}, {"align=right"}, {"text-align:right"},
               {"align=left", "align=right"} }

BoldSet == { <<>>, << <<" ", "B", "o">> >>, << <<" ">>, <<"A", "l">> >>,
             << Rep("a", NameLimit - 1) >>, << Rep("b", NameLimit) >> }

MutedSet == { <<>>,
              << <<"1", " ", "R", "u", "e">>,
                 <<"7", "5", "0", "0", "1", " ", "P", "a">>,
                 <<"+", "3", "3">> >> }

TableSet == [markup : MarkupSet, bold : BoldSet, muted : MutedSet]

HeadingSet == { <<>>, << Greeting \o <<",", " ", "B", "o", "b">> >> }

InitParty ==
    /\ pc = "extract_restaurant_info"
    /\ \E tables \in SeqsUpTo(TableSet, MaxTables), h2_tags \in HeadingSet :
          soup = [EmptySoup EXCEPT !.tables = tables, !.h2_tags = h2_tags]
    /\ PartyIdle
    /\ AddrIdle
    /\ OrderIdle
    /\ RowsIdle
    /\ DateIdle
    /\ BatchIdle
    /\ ScriptsIdle

ExtractRestaurant ==
    /\ pc = "extract_restaurant_info"
    /\ LET r == extract_restaurant_info(soup)
       IN restaurant_info' = r.info /\ restaurant_block' = r.block
    /\ pc' = "extract_client_info"
    /\ UNCHANGED <<soup, client_info, client_block, addrVars, orderVars, rowVars, dateVars, batchVars, scriptVars>>

ExtractClient ==
    /\ pc = "extract_client_info"
    /\ LET r == extract_client_info(soup)
       IN client_info' = r.info /\ client_block' = r.block
    /\ pc' = "done"
    /\ UNCHANGED <<soup, restaurant_info, restaurant_block, addrVars, orderVars, rowVars, dateVars, batchVars, scriptVars>>

NextParty == ExtractRestaurant \/ ExtractClient

SpecParty == InitParty /\ [][NextParty]_vars

RightFlagged(table) ==
    "align=right" \in table.markup \/ "text-align:right" \in table.markup

\* C2 as claimed: the restaurant block is never a table flagged
\* right-aligned (by attribute or by inline style), and the customer block
\* is always one.
C2_RestaurantNeverRightAligned ==
    /\ (pc # "extract_restaurant_info" /\ restaurant_block # 0) =>
          ~RightFlagged(soup.tables[restaurant_block])
    /\ (pc = "done" /\ client_block # 0) =>
          RightFlagged(soup.tables[client_block])

\* C3 as claimed: a table-derived name of either role is shorter than 100
C3_NameBelowLimit ==
    /\ (pc # "extract_restaurant_info" /\ restaurant_block # 0) =>
          Len(restaurant_info.nom) < NameLimit
    /\ (pc = "done" /\ client_block # 0) =>
          Len(client_info.nom) < NameLimit

(***************************************************************************)
(* extract_order_info                                                      *)
(***************************************************************************)
UpperSeq == <<"A", "B", "C", "D", "E", "F", "G", "H", "I", "J", "K", "L", "M",
              "N", "O", "P", "Q", "R", "S", "T", "U", "V", "W", "X", "Y", "Z">>
LowerSeq == <<"a", "b", "c", "d", "e", "f", "g", "h", "i", "j", "k", "l", "m",
              "n", "o", "p", "q", "r", "s", "t", "u", "v", "w", "x", "y", "z">>

\* case folding of re.IGNORECASE
Fold(c) == IF c \in Upper
           THEN LowerSeq[CHOOSE i \in 1..26 : UpperSeq[i] = c]
           ELSE c
FoldText(s) == [i \in 1..Len(s) |-> Fold(s[i])]

\* end of the longest run of characters satisfying P that starts at i
\* (i - 1 when there is none)
RunEnd(s, i, P(_)) ==
    LET stops == {j \in i..Len(s) : ~P(s[j])}
    IN IF stops = {} THEN Len(s)
       ELSE (CHOOSE j \in stops : \A k \in stops : j <= k) - 1

\* mutant: only the degree sign may follow the n
IsMarkerChar_degree_only(c) == c = "deg"

IsMarkerChar(c) == c = "deg" \/ IsSpace(c)

CommandeN == <<"c", "o", "m", "m", "a", "n", "d", "e", " ", "n">>

\* re.search(r'Commande n[deg\s]+(\d+)', text, re.IGNORECASE): group 1 of
\* the leftmost match, None if none
HeadingNumber(text) ==
    LET t == FoldText(text)
        ends(i) == LET m == RunEnd(t, i + Len(CommandeN), IsMarkerChar)
                       d == RunEnd(t, m + 1, IsDigit)
                   IN <<m, d>>
        starts == {i \in 1..Len(t) :
                     /\ MatchAt(t, i, CommandeN)
                     /\ ends(i)[1] >= i + Len(CommandeN)
                     /\ ends(i)[2] > ends(i)[1]}
    IN IF starts = {} THEN None
       ELSE LET i == CHOOSE i \in starts : \A j \in starts : i <= j
            IN SubSeq(text, ends(i)[1] + 1, ends(i)[2])

NumeroDeCommande == {<<"n", "u", "m", e, "r", "o", " ", "d", "e", " ",
                       "c", "o", "m", "m", "a", "n", "d", "e">> : e \in {"e", "e_acute"}}
NumeroLen == Len(CHOOSE w \in NumeroDeCommande : TRUE)
Est == <<"e", "s", "t">>
IsColonSpace(c) == c = ":" \/ IsSpace(c)

\* re.search(r'num[e e_acute]ro de commande.*?est[:\s]+(\d+)', all_text,
\* re.IGNORECASE): group 1 of the leftmost match with the shortest gap
PageNumber(all_text) ==
    LET t == FoldText(all_text)
        ends(k) == LET m == RunEnd(t, k + Len(Est), IsColonSpace)
                       d == RunEnd(t, m + 1, IsDigit)
                   IN <<m, d>>
        ests(i) == {k \in (i + NumeroLen)..Len(t) :
                      /\ MatchAt(t, k, Est)
                      /\ ends(k)[1] >= k + Len(Est)
                      /\ ends(k)[2] > ends(k)[1]}
        starts == {i \in 1..Len(t) :
                     /\ \E w \in NumeroDeCommande : MatchAt(t, i, w)
                     /\ ests(i) # {}}
    IN IF starts = {} THEN None
       ELSE LET i == CHOOSE i \in starts : \A j \in starts : i <= j
                k == CHOOSE k \in ests(i) : \A j \in ests(i) : k <= j
            IN SubSeq(all_text, ends(k)[1] + 1, ends(k)[2])

\* soup.get_text(): the headings and the rest of the page
PageText(sp) == Flatten(sp.h2_tags) \o sp.body

RECURSIVE HeadingLoop(_)
HeadingLoop(h2_tags) ==
    IF h2_tags = <<>> THEN None
    ELSE LET match == HeadingNumber(TagText(Head(h2_tags)))
         IN IF match # None THEN match ELSE HeadingLoop(Tail(h2_tags))

extract_order_info(sp) ==
    LET numero == HeadingLoop(sp.h2_tags)
    IN IF ~Truthy(numero)
       THEN [numero |-> PageNumber(clean_text(PageText(sp), FALSE)),
             fallback |-> TRUE]
       ELSE [numero |-> numero, fallback |-> FALSE]

(***************************************************************************)
(* Documents of the order-number extractor: up to MaxHeadings headings     *)
(* "Commande" + marker + digits, and a page body.                          *)
(***************************************************************************)
MaxHeadings == 2

WordSet == { <<"C", "o", "m", "m", "a", "n", "d", "e", " ">>,
             <<"C", "O", "M", "M", "A", "N", "D", "E", " ">> }
MarkerSet == { <<"n">>, <<"n", " ">>, <<"N", "deg">>, <<"n", "deg", " ">>,
               <<"n", "o", " ">>, <<"N", " ", " ">> }
NumberSet == { <<>>, <<"1", "2">> }

OrderHeadingSet == {w \o m \o d : w \in WordSet, m \in MarkerSet, d \in NumberSet}
                      \cup { <<"x">>,
                              <<"C", "o", "m", "m", "a", "n", "d", "e", " ", "n", "deg", "3", " ", "4">> }

BodySet == { <<>>,
             <<"n", "u", "m", "e", "r", "o", " ", "d", "e", " ", "c", "o", "m", "m", "a", "n", "d", "e", " ", "e", "s", "t", ":", " ", "9", "9">>,
             <<"N", "u", "m", "e_acute", "r", "o", " ", "d", "e", " ", "c", "o", "m", "m", "a", "n", "d", "e", " ", "5", " ", "e", "s", "t", " ", "7", "7">> }

InitOrder ==
    /\ pc = "extract_order_info"
    /\ \E h2_tags \in SeqsUpTo(OrderHeadingSet, MaxHeadings), body \in BodySet :
          soup = [EmptySoup EXCEPT !.h2_tags = h2_tags, !.body = body]
    /\ OrderIdle
    /\ PartyIdle
    /\ AddrIdle
    /\ RowsIdle
    /\ DateIdle
    /\ BatchIdle
    /\ ScriptsIdle

ExtractOrder ==
    /\ pc = "extract_order_info"
    /\ LET r == extract_order_info(soup)
       IN order_info' = [numero |-> r.numero] /\ order_fallback' = r.fallback
    /\ pc' = "done"
    /\ UNCHANGED <<soup, partyVars, addrVars, rowVars, dateVars, batchVars, scriptVars>>

NextOrder == ExtractOrder

SpecOrder == InitOrder /\ [][NextOrder]_vars

Commande == <<"c", "o", "m", "m", "a", "n", "d", "e", " ">>

\* the heading reads "Commande <marker><digits>" or
\* "Commande <marker> <digits>" in any letter case, for a marker of the set
HasForm(h, markers) ==
    LET t == FoldText(Strip(CollapseWs(h)))
    IN \E m \in markers, sep \in {<<>>, <<" ">>} :
          LET pre == Commande \o m \o sep
          IN /\ MatchAt(t, 1, pre)
             /\ Len(t) > Len(pre)
             /\ \A i \in (Len(pre) + 1)..Len(t) : IsDigit(t[i])

\* the digits that end a heading
FinalDigits(h) ==
    LET t == Strip(CollapseWs(h))
        nondigit == {i \in 1..Len(t) : ~IsDigit(t[i])}
    IN SubSeq(t, (CHOOSE i \in nondigit : \A j \in nondigit : j <= i) + 1, Len(t))

MentionsCommande(h) == Contains(FoldText(h), Commande)

OrderNumberOfFirst(markers) ==
    pc = "done" =>
        /\ \A k \in 1..Len(soup.h2_tags) :
              (/\ HasForm(soup.h2_tags[k], markers)
               /\ \A j \in 1..(k - 1) : ~MentionsCommande(soup.h2_tags[j]))
              => order_info.numero = FinalDigits(soup.h2_tags[k])
        /\ order_fallback =>
              \A k \in 1..Len(soup.h2_tags) : ~HasForm(soup.h2_tags[k], markers)

ClaimedMarkers == { <<"n", "deg">>, <<"n", " ">>, <<"n", "o">> }
AcceptedMarkers == { <<"n", "deg">>, <<"n", " ">> }

\* C4 as claimed: a heading "Commande <marker> <digits>" with marker "n deg",
\* "n " or "no", in any case, gives its digits as the order number, and the
\* page-text fallback is consulted only when no such heading is present.
C4_AsClaimed == OrderNumberOfFirst(ClaimedMarkers)

\* C4, amended: the same for the markers "n deg" and "n " only.
C4_OrderNumberFromHeading == OrderNumberOfFirst(AcceptedMarkers)

\* an upper-case heading after an unrelated one gives the order number
C4_Witness ==
    /\ pc = "done" /\ Len(soup.h2_tags) = 2
    /\ soup.h2_tags[1] = <<"x">>
    /\ soup.h2_tags[2] = <<"C", "O", "M", "M", "A", "N", "D", "E", " ", "N", "deg", "1", "2">>
    /\ order_info.numero = <<"1", "2">>
    /\ ~order_fallback

(***************************************************************************)
(* Prices.  A table row is a sequence of cells (td), a cell a sequence of  *)
(* <p> nodes in document order, a node a record of its text and of the     *)
(* markers its markup carries (substrings of its style, or class="total"). *)
(***************************************************************************)
IsPriceChar(c) == IsDigit(c) \/ c = "," \/ c = "."

\* re.search(r'EUR?\s*([\d,\.]+)', price_text): group 1 of the leftmost
\* match, None if none (the optional tail of the item pattern, \s*[EUR]?,
\* does not change the group)
PriceGroup(price_text) ==
    LET from(i) == RunEnd(price_text,
                          IF price_text[i] = "EUR" THEN i + 1 ELSE i, IsSpace) + 1
        starts == {i \in 1..Len(price_text) :
                     RunEnd(price_text, from(i), IsPriceChar) >= from(i)}
    IN IF starts = {} THEN None
       ELSE LET i == CHOOSE i \in starts : \A j \in starts : i <= j
            IN SubSeq(price_text, from(i), RunEnd(price_text, from(i), IsPriceChar))

DigitSeq == <<"0", "1", "2", "3", "4", "5", "6", "7", "8", "9">>
DigitVal(c) == (CHOOSE i \in 1..10 : DigitSeq[i] = c) - 1

\* int(s) for a text of digits
RECURSIVE ToInt(_)
ToInt(s) == IF s = <<>> THEN 0
            ELSE 10 * ToInt(SubSeq(s, 1, Len(s) - 1)) + DigitVal(s[Len(s)])

ValueError == <<"ValueError">>

RECURSIVE Normalize(_, _)
Normalize(m, e) == IF e > 0 /\ m % 10 = 0 THEN Normalize(m \div 10, e - 1)
                   ELSE <<"float", m, e>>

\* float(price_str.replace(',', '.')) for a text of digits, commas and dots
ToFloat(price_str) ==
    LET t == [i \in 1..Len(price_str) |->
                IF price_str[i] = "," THEN "." ELSE price_str[i]]
        dots == {i \in 1..Len(t) : t[i] = "."}
    IN IF Cardinality(dots) > 1 \/ Cardinality(dots) = Len(t) THEN ValueError
       ELSE LET digits == SelectSeq(t, IsDigit)
                e == IF dots = {} THEN 0 ELSE Len(t) - (CHOOSE i \in dots : TRUE)
            IN Normalize(ToInt(digits), e)

\* mutant: no except clause
Caught_nothing(v) == v

\* try: ... except ValueError: pass
Caught(v) == IF v = ValueError THEN None ELSE v

\* the value a price text gives, None when the pattern or float() fails
PriceOf(price_text) ==
    LET g == PriceGroup(price_text)
    IN IF g = None THEN None ELSE Caught(ToFloat(g))

\* cell.find('p'), cell.find('p', style=...), cell.find_all('p', style=...)
\* a found node is <<node>>, a missing one NoNode
NoNode == <<>>
FindP(cell) == IF cell = <<>> THEN NoNode ELSE <<cell[1]>>
FindAllStyled(cell, marker) == SelectSeq(cell, LAMBDA p : marker \in p.marks)
FindStyled(cell, marker) == FindP(FindAllStyled(cell, marker))

(***************************************************************************)
(* extract_items: the body of the loop over the rows of the list-item      *)
(* table                                                                   *)
(***************************************************************************)
MinNameLen == 3

\* re.search(r'^(\d+)x$', text) and re.match(r'^\d+x$', text)
IsQuantity(text) ==
    /\ Len(text) >= 2 /\ text[Len(text)] = "x"
    /\ \A i \in 1..(Len(text) - 1) : IsDigit(text[i])

ItemQuantity(cells) ==
    LET qty_p == FindP(cells[1])
    IN IF qty_p = NoNode THEN None
       ELSE LET qty_text == TagText(qty_p[1].text)
            IN IF IsQuantity(qty_text)
               THEN <<"int", ToInt(SubSeq(qty_text, 1, Len(qty_text) - 1))>>
               ELSE None

\* mutant: a name of exactly three characters is accepted
ItemName_at_least_three(cells) ==
    LET name_p == FindStyled(cells[2], "color:#000001")
    IN IF name_p = NoNode THEN None
       ELSE LET nom_text == TagText(name_p[1].text)
            IN IF Truthy(nom_text) /\ ~IsQuantity(nom_text)
                  /\ Len(nom_text) >= MinNameLen
               THEN nom_text ELSE None

ItemName(cells) ==
    LET name_p == FindStyled(cells[2], "color:#000001")
    IN IF name_p = NoNode THEN None
       ELSE LET nom_text == TagText(name_p[1].text)
            IN IF Truthy(nom_text) /\ ~IsQuantity(nom_text)
                  /\ Len(nom_text) > MinNameLen
               THEN nom_text ELSE None

RECURSIVE OptionLoop(_, _)
OptionLoop(option_ps, nom) ==
    IF option_ps = <<>> THEN <<>>
    ELSE LET option_text == TagText(Head(option_ps).text)
         IN (IF Truthy(option_text) /\ option_text # nom /\ Len(option_text) > 0
             THEN <<option_text>> ELSE <<>>)
            \o OptionLoop(Tail(option_ps), nom)

ItemOptions(cells) ==
    IF ItemName(cells) = None THEN <<>>
    ELSE OptionLoop(FindAllStyled(cells[2], "color:#828585"), ItemName(cells))

ItemPrice(cells) ==
    IF Len(cells) <= 2 THEN None
    ELSE LET price_p == FindStyled(cells[3], "text-align:right")
         IN IF price_p = NoNode THEN None ELSE PriceOf(TagText(price_p[1].text))

\* the items after one more row
ItemsAfterRow(acc, row) ==
    IF Len(row) < 2 THEN acc
    ELSE LET item == [quantite |-> ItemQuantity(row), nom |-> ItemName(row),
                      options |-> ItemOptions(row), prix |-> ItemPrice(row)]
         IN IF Truthy(item.nom) THEN Append(acc, item) ELSE acc

(***************************************************************************)
(* extract_totals: the body of the loop over all rows of the document      *)
(***************************************************************************)
EmptyTotals == [sous_total |-> None, frais_livraison |-> None,
                pourboire |-> None, credit |-> None, total |-> None]

SousTotal == <<"S", "o", "u", "s", "-", "t", "o", "t", "a", "l">>
FraisDeLivraison == <<"F", "r", "a", "i", "s", " ", "d", "e", " ",
                      "l", "i", "v", "r", "a", "i", "s", "o", "n">>
Pourboire == <<"P", "o", "u", "r", "b", "o", "i", "r", "e">>
Credit == <<"C", "r", "e_acute", "d", "i", "t">>
Total == <<"T", "o", "t", "a", "l">>

\* mutant: any label containing "Total" counts, styled or not
TotalsField_no_style(label_p) ==
    LET label_text == TagText(label_p.text)
    IN IF Contains(label_text, SousTotal) THEN "sous_total"
       ELSE IF Contains(label_text, FraisDeLivraison) THEN "frais_livraison"
       ELSE IF Contains(label_text, Pourboire) THEN "pourboire"
       ELSE IF Contains(label_text, Credit) THEN "credit"
       ELSE IF Contains(label_text, Total) THEN "total"
       ELSE "none"

\* the field a row with this label node sets, "none" if it sets none
TotalsField(label_p) ==
    LET label_text == TagText(label_p.text)
    IN IF Contains(label_text, SousTotal) THEN "sous_total"
       ELSE IF Contains(label_text, FraisDeLivraison) THEN "frais_livraison"
       ELSE IF Contains(label_text, Pourboire) THEN "pourboire"
       ELSE IF Contains(label_text, Credit) THEN "credit"
       ELSE IF /\ Contains(label_text, Total)
               /\ ("class=total" \in label_p.marks
                     \/ "font-size:34px" \in label_p.marks) THEN "total"
       ELSE "none"

\* mutant: the first row of a label wins
TotalsAfterRow_first_wins(acc, tr) ==
    IF Len(tr) < 2 THEN acc
    ELSE LET label_p == FindP(tr[1])
             price_p == FindP(tr[2])
         IN IF label_p = NoNode \/ price_p = NoNode THEN acc
            ELSE LET price_value == PriceOf(TagText(price_p[1].text))
                     field == TotalsField(label_p[1])
                 IN IF price_value = None \/ field = "none" THEN acc
                    ELSE IF acc[field] # None THEN acc
                    ELSE [acc EXCEPT ![field] = price_value]

\* the totals after one more row
TotalsAfterRow(acc, tr) ==
    IF Len(tr) < 2 THEN acc
    ELSE LET label_p == FindP(tr[1])
             price_p == FindP(tr[2])
         IN IF label_p = NoNode \/ price_p = NoNode THEN acc
            ELSE LET price_value == PriceOf(TagText(price_p[1].text))
                     field == TotalsField(label_p[1])
                 IN IF price_value = None \/ field = "none" THEN acc
                    ELSE [acc EXCEPT ![field] = price_value]

(***************************************************************************)
(* The two loops, one row per step.  An exception that escapes a loop      *)
(* body ends the extraction at pc = "raised".                              *)
(***************************************************************************)
ItemsNoTable ==
    /\ pc = "extract_items"
    /\ ~soup.list_item_table.found
    /\ pc' = "extract_totals"
    /\ UNCHANGED <<soup, rowVars, addrVars, partyVars, orderVars, dateVars, batchVars, scriptVars>>

ItemsRow ==
    /\ pc = "extract_items"
    /\ soup.list_item_table.found
    /\ item_i < Len(soup.list_item_table.rows)
    /\ LET after == ItemsAfterRow(items, soup.list_item_table.rows[item_i + 1])
       IN IF after # items /\ after[Len(after)].prix = ValueError
          THEN pc' = "raised" /\ UNCHANGED <<items, item_i>>
          ELSE pc' = pc /\ items' = after /\ item_i' = item_i + 1
    /\ UNCHANGED <<soup, totals, tr_i, addrVars, partyVars, orderVars, dateVars, batchVars, scriptVars>>

ItemsReturn ==
    /\ pc = "extract_items"
    /\ soup.list_item_table.found
    /\ item_i = Len(soup.list_item_table.rows)
    /\ pc' = "extract_totals"
    /\ UNCHANGED <<soup, rowVars, addrVars, partyVars, orderVars, dateVars, batchVars, scriptVars>>

NextItems == ItemsNoTable \/ ItemsRow \/ ItemsReturn

TotalsRow ==
    /\ pc = "extract_totals"
    /\ tr_i < Len(soup.all_trs)
    /\ LET after == TotalsAfterRow(totals, soup.all_trs[tr_i + 1])
       IN IF \E f \in DOMAIN after : after[f] = ValueError
          THEN pc' = "raised" /\ UNCHANGED <<totals, tr_i>>
          ELSE pc' = pc /\ totals' = after /\ tr_i' = tr_i + 1
    /\ UNCHANGED <<soup, items, item_i, addrVars, partyVars, orderVars, dateVars, batchVars, scriptVars>>

TotalsReturn ==
    /\ pc = "extract_totals"
    /\ tr_i = Len(soup.all_trs)
    /\ pc' = "done"
    /\ UNCHANGED <<soup, rowVars, addrVars, partyVars, orderVars, dateVars, batchVars, scriptVars>>

NextTotals == TotalsRow \/ TotalsReturn

P(text, marks) == [text |-> text, marks |-> marks]

(***************************************************************************)
(* Documents of the line-item extractor: a list-item table of up to        *)
(* MaxRows rows, or none.                                                  *)
(***************************************************************************)
MaxRows == 2

QtyCellSet == { << P(<<"2", "x">>, {}) >>, <<>> }
PlainName == << P(<<"P", "i", "z", "z">>, {"color:#000001"}) >>

NameCellSet ==
    { <<>>,
      PlainName,
      << P(<<" ", "P", "i", "z">>, {"color:#000001"}) >>,
      << P(<<"1", "2", "3", "4", "x">>, {"color:#000001"}) >>,
      << P(<<"P", "i", "z", "z">>, {}) >>,
      << P(<<"P", "i", "z", "z">>, {"color:#828585"}), P(<<"N", "e", "m", "s">>, {"color:#000001"}),
         P(<<"N", "e", "m", "s">>, {"color:#828585"}), P(<<"s", "a", "u", "c", "e">>, {"color:#828585"}) >> }
PriceCellSet == { << P(<<"9", ",", "5", "0", " ", "EUR">>, {"text-align:right"}) >>,
                  << P(<<"9", ",", "5", "0">>, {}) >> }

StyledPrice == << P(<<"9", ",", "5", "0", " ", "EUR">>, {"text-align:right"}) >>
QtyCell == << P(<<"2", "x">>, {}) >>

ItemRowSet == {<<q>> : q \in QtyCellSet}
                 \cup {<<QtyCell, n>> : n \in NameCellSet}
                 \cup {<<q, n, StyledPrice>> : q \in QtyCellSet, n \in NameCellSet}
                 \cup {<<QtyCell, n, c>> : n \in {PlainName}, c \in PriceCellSet}

InitItems ==
    /\ pc = "extract_items"
    /\ \E table \in {NoTable} \cup {ListTable(rows) : rows \in SeqsUpTo(ItemRowSet, MaxRows)} :
          soup = [EmptySoup EXCEPT !.list_item_table = table, !.all_trs = table.rows]
    /\ items = <<>> /\ item_i = 0
    /\ totals = EmptyTotals /\ tr_i = 0
    /\ AddrIdle /\ PartyIdle /\ OrderIdle /\ DateIdle /\ BatchIdle /\ ScriptsIdle

SpecItems == InitItems /\ [][NextItems]_vars

NormalText(t) == Strip(CollapseWs(t))

LooksLikeQuantity(n) ==
    /\ Len(n) >= 2 /\ n[Len(n)] = "x"
    /\ \A i \in 1..(Len(n) - 1) : n[i] \in Digits

\* the normalized text of the first primary-coloured node of the name cell
\* when the row has one of at least four characters that is no quantity,
\* None otherwise
AcceptedName(row) ==
    IF Len(row) < 2 THEN None
    ELSE LET primary == {i \in 1..Len(row[2]) : "color:#000001" \in row[2][i].marks}
         IN IF primary = {} THEN None
            ELSE LET i == CHOOSE i \in primary : \A j \in primary : i <= j
                     n == NormalText(row[2][i].text)
                 IN IF Len(n) >= 4 /\ ~LooksLikeQuantity(n) THEN n ELSE None

HasAcceptedName(row) == AcceptedName(row) # None

\* C5: the items are, in row order, exactly the rows whose name was
\* accepted; a name shorter than 4 normalized characters or of the form
\* <digits>x gives no item, whatever the quantity and the price.
C5_ItemsIffName ==
    /\ pc # "raised"
    /\ ~soup.list_item_table.found => items = <<>>
    /\ soup.list_item_table.found =>
          LET rows == soup.list_item_table.rows
              kept == SelectSeq([k \in 1..item_i |-> rows[k]], HasAcceptedName)
          IN /\ Len(items) = Len(kept)
             /\ \A k \in 1..Len(kept) : items[k].nom = AcceptedName(kept[k])
             /\ pc = "extract_totals" => item_i = Len(rows)

\* a row with quantity, price and a three-character name gives no item, the
\* row after it does
C5_Witness ==
    /\ pc = "extract_totals"
    /\ Len(soup.list_item_table.rows) = 2
    /\ LET row == soup.list_item_table.rows[1]
       IN /\ Len(row) = 3
          /\ ItemQuantity(row) = <<"int", 2>>
          /\ ItemPrice(row) = <<"float", 95, 1>>
          /\ Len(row[2]) = 1
          /\ row[2][1].text = <<" ", "P", "i", "z">>
    /\ Len(items) = 1
    /\ items[1].nom = <<"N", "e", "m", "s">>
    /\ items[1].options = << <<"P", "i", "z", "z">>, <<"s", "a", "u", "c", "e">> >>

(***************************************************************************)
(* Documents of the totals extractor: up to MaxTrs rows, no list-item      *)
(* table.                                                                  *)
(***************************************************************************)
MaxTrs == 3

TenEuros == <<"1", "0", ",", "0", "0", "EUR">>
TwelveFifty == <<"1", "2", ",", "5", "0", "EUR">>
NotAvailable == <<"N", "/", "A">>

TotalRowSet ==
    {<< <<l>>, <<P(t, {})>> >> :
        l \in {P(SousTotal, {})},
        t \in {TenEuros, TwelveFifty, NotAvailable}}
    \cup {<< <<l>>, <<P(TwelveFifty, {})>> >> :
             l \in {P(Total, {"class=total"}), P(Total, {})}}
    \cup {<< <<l>>, <<P(TenEuros, {})>> >> :
             l \in {P(Total, {"font-size:34px"}), P(SousTotal, {"font-size:34px"}),
                    P(Credit, {})}}
    \cup { << <<P(Total, {"class=total"})>> >>,
           << <<>>, <<P(TenEuros, {})>> >> }

InitTotals ==
    /\ pc = "extract_totals"
    /\ \E trs \in SeqsUpTo(TotalRowSet, MaxTrs) :
          soup = [EmptySoup EXCEPT !.all_trs = trs]
    /\ items = <<>> /\ item_i = 0
    /\ totals = EmptyTotals /\ tr_i = 0
    /\ AddrIdle /\ PartyIdle /\ OrderIdle /\ DateIdle /\ BatchIdle /\ ScriptsIdle

SpecTotals == InitTotals /\ [][NextTotals]_vars

SizeMarked(p) == "class=total" \in p.marks \/ "font-size:34px" \in p.marks

\* the label node and the price text of a row of two cells with a node each
IsLabelled(tr) == Len(tr) >= 2 /\ tr[1] # <<>> /\ tr[2] # <<>>
LabelOf(tr) == tr[1][1]
PriceTextOf(tr) == tr[2][1].text

\* the value of the price texts of the model
KnownPrice(t) ==
    IF t = TenEuros THEN <<"float", 10, 0>>
    ELSE IF t = TwelveFifty THEN <<"float", 125, 1>>
    ELSE None

SousTotalRow(tr) ==
    IsLabelled(tr) /\ LabelOf(tr).text = SousTotal
GrandTotalRow(tr) ==
    IsLabelled(tr) /\ LabelOf(tr).text = Total /\ SizeMarked(LabelOf(tr))

\* C7: the total changes only at a row whose label contains "Total" and
\* carries the style signal, never at a "Sous-total" row; with
\* "Sous-total 10,00" and a size-marked "Total 12,50" both present, in
\* either order, the result is subtotal 10.00 and total 12.50.
C7_TotalOnlyFromMarkedTotal ==
    /\ [][totals'.total # totals.total =>
             /\ GrandTotalRow(soup.all_trs[tr_i + 1])
             /\ ~SousTotalRow(soup.all_trs[tr_i + 1])]_vars
    /\ [](pc = "done" =>
             \A i, j \in 1..Len(soup.all_trs) :
                (/\ SousTotalRow(soup.all_trs[i])
                 /\ PriceTextOf(soup.all_trs[i]) = TenEuros
                 /\ GrandTotalRow(soup.all_trs[j])
                 /\ PriceTextOf(soup.all_trs[j]) = TwelveFifty
                 /\ \A k \in 1..Len(soup.all_trs) :
                       /\ SousTotalRow(soup.all_trs[k]) =>
                             PriceTextOf(soup.all_trs[k]) # TwelveFifty
                       /\ GrandTotalRow(soup.all_trs[k]) =>
                             PriceTextOf(soup.all_trs[k]) # TenEuros)
                => /\ totals.sous_total = <<"float", 10, 0>>
                   /\ totals.total = <<"float", 125, 1>>)

\* the size-marked total row first, a size-marked sous-total row after it
C7_Witness ==
    /\ pc = "done" /\ Len(soup.all_trs) = 2
    /\ GrandTotalRow(soup.all_trs[1]) /\ SousTotalRow(soup.all_trs[2])
    /\ SizeMarked(LabelOf(soup.all_trs[2]))
    /\ totals.sous_total = <<"float", 10, 0>>
    /\ totals.total = <<"float", 125, 1>>

\* the field a row is meant to set, by its exact label
ExpectedField(tr) ==
    IF ~IsLabelled(tr) THEN "none"
    ELSE LET l == LabelOf(tr)
         IN IF l.text = SousTotal THEN "sous_total"
            ELSE IF l.text = FraisDeLivraison THEN "frais_livraison"
            ELSE IF l.text = Pourboire THEN "pourboire"
            ELSE IF l.text = Credit THEN "credit"
            ELSE IF l.text = Total /\ SizeMarked(l) THEN "total"
            ELSE "none"

Settles(tr, f) ==
    ExpectedField(tr) = f /\ KnownPrice(PriceTextOf(tr)) # None

\* C8: at the end every field holds the price of the last row of its label
\* with a parseable price (null if there is none); a row whose price does
\* not parse changes no total and the scan goes on to the next row.
C8_LastMatchWins ==
    /\ [](pc = "done" =>
             /\ tr_i = Len(soup.all_trs)
             /\ \A f \in DOMAIN totals :
                   LET hits == {k \in 1..Len(soup.all_trs) : Settles(soup.all_trs[k], f)}
                   IN IF hits = {} THEN totals[f] = None
                      ELSE totals[f] = KnownPrice(PriceTextOf(
                              soup.all_trs[CHOOSE k \in hits : \A h \in hits : h <= k])))
    /\ [][(/\ pc = "extract_totals" /\ tr_i < Len(soup.all_trs)
            /\ IsLabelled(soup.all_trs[tr_i + 1])
            /\ KnownPrice(PriceTextOf(soup.all_trs[tr_i + 1])) = None)
           => (totals' = totals /\ tr_i' = tr_i + 1 /\ pc' = pc)]_vars

\* a parseable row, one that fails to parse, then a parseable one of the
\* same label: the last one wins
C8_Witness ==
    /\ pc = "done" /\ Len(soup.all_trs) = 3
    /\ \A k \in 1..3 : ExpectedField(soup.all_trs[k]) = "sous_total"
    /\ PriceTextOf(soup.all_trs[1]) = TenEuros
    /\ PriceTextOf(soup.all_trs[2]) = NotAvailable
    /\ PriceTextOf(soup.all_trs[3]) = TwelveFifty
    /\ totals.sous_total = <<"float", 125, 1>>

(***************************************************************************)
(* Documents of the price parser: one price text of up to MaxPriceLen      *)
(* characters, in the price cell of an item row and of a total row.        *)
(***************************************************************************)
MaxPriceLen == 4

PriceAlphabet == {"1", ",", ".", "EUR", " ", "N"}
PriceTextSet == SeqsUpTo(PriceAlphabet, MaxPriceLen) \cup {NotAvailable}

PricedItemRow(t) ==
    << <<P(<<"2", "x">>, {})>>,
       <<P(<<"P", "i", "z", "z">>, {"color:#000001"})>>,
       <<P(t, {"text-align:right"})>> >>
PricedTotalRow(t) == << <<P(Total, {"class=total"})>>, <<P(t, {})>> >>

InitPrice ==
    /\ pc = "extract_items"
    /\ \E t \in PriceTextSet, found \in BOOLEAN :
          soup = [EmptySoup EXCEPT
                    !.list_item_table =
                        IF found THEN ListTable(<<PricedItemRow(t)>>) ELSE NoTable,
                    !.all_trs =
                        (IF found THEN <<PricedItemRow(t)>> ELSE <<>>)
                            \o <<PricedTotalRow(t)>>]
    /\ items = <<>> /\ item_i = 0
    /\ totals = EmptyTotals /\ tr_i = 0
    /\ AddrIdle /\ PartyIdle /\ OrderIdle /\ DateIdle /\ BatchIdle /\ ScriptsIdle

NextPrice == NextItems \/ NextTotals

SpecPrice == InitPrice /\ [][NextPrice]_vars

\* the price text of the document
TestedText == PriceTextOf(soup.all_trs[Len(soup.all_trs)])

IsSeparator(c) == c = "," \/ c = "."
IsAmountChar(c) == c \in Digits \/ IsSeparator(c)

\* optional currency sign, digits with separators, optional currency sign
WellFormedAmount(t) ==
    LET n == NormalText(t)
    IN \E a, b \in 1..Len(n) :
          /\ a <= b
          /\ \A i \in a..b : IsAmountChar(n[i])
          /\ \E i \in a..b : n[i] \in Digits
          /\ a = 1 \/ (n[1] = "EUR" /\ \A i \in 2..(a - 1) : n[i] = " ")
          /\ b = Len(n) \/ (n[Len(n)] = "EUR" /\ \A i \in (b + 1)..(Len(n) - 1) : n[i] = " ")

\* the first run of digits, commas and dots is a number: it has a digit
\* and at most one separator
FirstRunIsNumber(t) ==
    \E a, b \in 1..Len(t) :
        /\ a <= b
        /\ \A i \in 1..(a - 1) : ~IsAmountChar(t[i])
        /\ \A i \in a..b : IsAmountChar(t[i])
        /\ b = Len(t) \/ ~IsAmountChar(t[b + 1])
        /\ \E i \in a..b : t[i] \in Digits
        /\ Cardinality({i \in a..b : IsSeparator(t[i])}) <= 1

\* C6 as claimed: a price text that is no well-formed amount never raises
\* and leaves the price and the total null.
C6_AsClaimed ==
    /\ pc # "raised"
    /\ (pc = "done" /\ ~WellFormedAmount(TestedText)) =>
          /\ totals.total = None
          /\ soup.list_item_table.found => items[1].prix = None

\* C6, amended: extraction never raises, and the price and the total are
\* null exactly when the first run of digits, commas and dots of the text
\* is missing or is no number.
C6_NullUnlessFirstRunIsNumber ==
    /\ pc # "raised"
    /\ pc = "done" =>
          /\ totals.total = None <=> ~FirstRunIsNumber(TestedText)
          /\ soup.list_item_table.found =>
                (items[1].prix = None <=> ~FirstRunIsNumber(TestedText))

\* a text with two separators, on which float() fails
C6_Witness ==
    /\ pc = "done"
    /\ soup.list_item_table.found
    /\ TestedText = <<"1", ",", "1", ".">>
    /\ items[1].prix = None
    /\ totals.total = None

(***************************************************************************)
(* extract_date_from_filename.  A file name is a record of its tokens,     *)
(* the texts between its underscores, and of its ending; the tokens of     *)
(* the model are made of word characters (\w).                             *)
(***************************************************************************)
Ending == <<"_", ".", "h", "t", "m", "l">>

MoisMap == << <<"J", "a", "n">>, <<"F", "e", "b">>, <<"M", "a", "r">>, <<"A", "p", "r">>, <<"M", "a", "y">>, <<"J", "u", "n">>, <<"J", "u", "l">>, <<"A", "u", "g">>, <<"S", "e", "p">>, <<"O", "c", "t">>, <<"N", "o", "v">>, <<"D", "e", "c">> >>

\* mois_map.get(mois_str, 1)
Mois(mois_str) ==
    IF \E k \in 1..12 : MoisMap[k] = mois_str
    THEN CHOOSE k \in 1..12 : MoisMap[k] = mois_str
    ELSE 1

IsNumber(t) == t # <<>> /\ AllDigits(t)

\* tokens joined by underscores
RECURSIVE Join(_)
Join(ts) == IF Len(ts) = 1 THEN ts[1] ELSE ts[1] \o <<"_">> \o Join(Tail(ts))

\* re.search(r'(\w+)_(\d+)_(\w+)_(\d+)_(\d+)_(\d+)_(\d+)_\.html', filename):
\* the seven groups, None if there is no match.  The last four groups are
\* the last four tokens; \w matches the underscore, so the first and the
\* third group may span several tokens, the first one (greedy) as many as
\* it can.
DateGroups(fn) ==
    LET ts == fn.tokens
        n == Len(ts)
        ks == {k \in 2..(n - 5) : IsNumber(ts[k])}
    IN IF fn.ending # Ending \/ n < 7 \/ ks = {}
          \/ \E i \in (n - 3)..n : ~IsNumber(ts[i])
       THEN None
       ELSE LET k == CHOOSE k \in ks : \A j \in ks : j <= k
            IN << Join(SubSeq(ts, 1, k - 1)), ts[k], Join(SubSeq(ts, k + 1, n - 4)),
                  ts[n - 3], ts[n - 2], ts[n - 1], ts[n] >>

IntMaxPrefix == 214748364
IntMaxLast == 7

RECURSIVE StripZeros(_)
StripZeros(s) == IF Len(s) > 1 /\ Head(s) = "0" THEN StripZeros(Tail(s)) ELSE s

\* int(s) fits the C int of the datetime constructor
FitsCInt(s) ==
    LET d == StripZeros(s)
    IN \/ Len(d) < 10
       \/ /\ Len(d) = 10
          /\ LET hi == ToInt(SubSeq(d, 1, 9))
                 lo == DigitVal(d[10])
             IN hi < IntMaxPrefix \/ (hi = IntMaxPrefix /\ lo <= IntMaxLast)

IsLeap(y) == y % 4 = 0 /\ (y % 100 # 0 \/ y % 400 = 0)
DaysInMonth(y, m) ==
    IF m = 2 THEN (IF IsLeap(y) THEN 29 ELSE 28)
    ELSE IF m \in {4, 6, 9, 11} THEN 30 ELSE 31

MaxYear == 9999

\* datetime(year, month, day, hour, minute, second) on texts of digits:
\* the timestamp <<"datetime", year, month, ...>>, or the exception it raises
Datetime(annee, mois, jour, heure, minute, seconde) ==
    IF \E s \in {annee, jour, heure, minute, seconde} : ~FitsCInt(s)
    THEN <<"OverflowError">>
    ELSE LET y == ToInt(StripZeros(annee))
             d == ToInt(StripZeros(jour))
             h == ToInt(StripZeros(heure))
             mi == ToInt(StripZeros(minute))
             sec == ToInt(StripZeros(seconde))
         IN IF /\ y \in 1..MaxYear
               /\ d >= 1 /\ d <= DaysInMonth(y, mois)
               /\ h \in 0..23 /\ mi \in 0..59 /\ sec \in 0..59
            THEN <<"datetime", y, mois, d, h, mi, sec>>
            ELSE ValueError

\* the dictionary returned, with its 'datetime' and 'jour_semaine' entries
DateInfo(date_obj, jour_semaine) == <<"date_info", date_obj, jour_semaine>>
MonthOf(info) == info[2][3]

\* the outcome of the call: the value returned, or the exception that
\* escapes the except (ValueError, KeyError) clause
extract_date_from_filename(fn) ==
    LET match == DateGroups(fn)
    IN IF match = None THEN [raised |-> FALSE, value |-> None]
       ELSE LET date_obj == Datetime(match[4], Mois(match[3]), match[2],
                                     match[5], match[6], match[7])
            IN IF date_obj = <<"OverflowError">>
               THEN [raised |-> TRUE, value |-> None]
               ELSE IF date_obj = ValueError
               THEN [raised |-> FALSE, value |-> None]
               ELSE [raised |-> FALSE, value |-> DateInfo(date_obj, match[1])]

(***************************************************************************)
(* File names of the model                                                 *)
(***************************************************************************)
DaySet == { <<"0">>, <<"1">>, <<"0", "1">>, <<"2", "9">>, <<"3", "0">>, <<"3", "1">>, <<"3", "2">> }
MonthSet == {MoisMap[k] : k \in 1..12} \cup { <<"j", "a", "n">>, <<"F", "o", "o">>, <<"1", "2">> }
YearSet == { <<"0">>, <<"1">>, <<"2", "0", "2", "3">>, <<"2", "0", "2", "4">>, <<"9", "9", "9", "9">>, <<"1", "0", "0", "0", "0">>, <<"2", "1", "4", "7", "4", "8", "3", "6", "4", "7">>, <<"2", "1", "4", "7", "4", "8", "3", "6", "4", "8">> }
HourSet == { <<"0">>, <<"2", "3">>, <<"2", "4">> }
SixtySet == { <<"5", "9">>, <<"6", "0">> }
EndingSet == { Ending, <<".", "h", "t", "m", "l">> }
LeadSet == { << <<"M", "o", "n">> >>, << <<"a">>, <<"M", "o", "n">> >>, <<>> }

FilenameSet ==
    { [tokens |-> lead \o <<d, m, y, h, mi, sec>>, ending |-> e] :
        lead \in LeadSet, d \in DaySet, m \in MonthSet, y \in YearSet,
        h \in HourSet, mi \in SixtySet, sec \in SixtySet, e \in EndingSet }

InitDate ==
    /\ pc = "extract_date_from_filename"
    /\ filename \in FilenameSet
    /\ date_info = None
    /\ soup = EmptySoup
    /\ AddrIdle /\ PartyIdle /\ OrderIdle /\ RowsIdle /\ BatchIdle /\ ScriptsIdle

ExtractDate ==
    /\ pc = "extract_date_from_filename"
    /\ LET r == extract_date_from_filename(filename)
       IN /\ pc' = IF r.raised THEN "raised" ELSE "done"
          /\ date_info' = r.value
    /\ UNCHANGED <<filename, soup, addrVars, partyVars, orderVars, rowVars, batchVars, scriptVars>>

NextDate == ExtractDate

SpecDate == InitDate /\ [][NextDate]_vars

\* the file name has seven tokens, numeric but for the first and the third,
\* and the ending _.html
SevenTokens(fn) ==
    /\ Len(fn.tokens) = 7 /\ fn.ending = Ending
    /\ \A i \in {2, 4, 5, 6, 7} : fn.tokens[i] \in DaySet \cup YearSet \cup HourSet \cup SixtySet

\* the numeric fields of the model that are a valid date and time
InRange(fn) ==
    LET ts == fn.tokens
        m == IF \E k \in 1..12 : MoisMap[k] = ts[3]
             THEN CHOOSE k \in 1..12 : MoisMap[k] = ts[3] ELSE 1
    IN /\ ts[4] \in { <<"1">>, <<"2", "0", "2", "3">>, <<"2", "0", "2", "4">>, <<"9", "9", "9", "9">> }
       /\ ts[5] \in { <<"0">>, <<"2", "3">> }
       /\ ts[6] = <<"5", "9">> /\ ts[7] = <<"5", "9">>
       /\ \/ ts[2] \in { <<"1">>, <<"0", "1">> }
          \/ ts[2] = <<"2", "9">> /\ (m # 2 \/ ts[4] = <<"2", "0", "2", "4">>)
          \/ ts[2] = <<"3", "0">> /\ m # 2
          \/ ts[2] = <<"3", "1">> /\ m \in {1, 3, 5, 7, 8, 10, 12}

\* C9 as claimed: a seven-token name with in-range fields gives the month
\* of its abbreviation (1 for an unknown one), any other name gives null,
\* and no exception escapes.
C9_MonthOrNull ==
    /\ pc # "raised"
    /\ (pc = "done" /\ SevenTokens(filename) /\ InRange(filename)) =>
          /\ date_info # None
          /\ \A k \in 1..12 : filename.tokens[3] = MoisMap[k] =>
                                  MonthOf(date_info) = k
          /\ (\A k \in 1..12 : filename.tokens[3] # MoisMap[k]) =>
                MonthOf(date_info) = 1
    /\ (pc = "done" /\ Len(filename.tokens) = 7
           /\ ~(SevenTokens(filename) /\ InRange(filename))) =>
          date_info = None

(***************************************************************************)
(* parse_deliveroo_html and generate_order_json.  A file is a record of    *)
(* its name, of whether open() succeeds on it, and of the document its     *)
(* content parses to.                                                      *)
(***************************************************************************)
RECURSIVE ItemsLoop(_, _)
ItemsLoop(rows, acc) ==
    IF rows = <<>> THEN acc
    ELSE ItemsLoop(Tail(rows), ItemsAfterRow(acc, Head(rows)))

extract_items(sp) ==
    IF ~sp.list_item_table.found THEN <<>>
    ELSE ItemsLoop(sp.list_item_table.rows, <<>>)

RECURSIVE TotalsLoop(_, _)
TotalsLoop(trs, acc) ==
    IF trs = <<>> THEN acc
    ELSE TotalsLoop(Tail(trs), TotalsAfterRow(acc, Head(trs)))

extract_totals(sp) == TotalsLoop(sp.all_trs, EmptyTotals)

\* the text of a natural number
RECURSIVE ToText(_)
ToText(n) == IF n < 10 THEN <<DigitSeq[n + 1]>>
             ELSE ToText(n \div 10) \o <<DigitSeq[(n % 10) + 1]>>

Pad2(n) == IF n < 10 THEN <<"0">> \o ToText(n) ELSE ToText(n)

\* date_obj.strftime('%Y-%m-%d %H:%M:%S'), the year as the C library of
\* Linux prints it (not padded)
Raw(date_obj) ==
    ToText(date_obj[2]) \o <<"-">> \o Pad2(date_obj[3]) \o <<"-">> \o Pad2(date_obj[4])
        \o <<" ">> \o Pad2(date_obj[5]) \o <<":">> \o Pad2(date_obj[6])
        \o <<":">> \o Pad2(date_obj[7])

\* the dictionary that parse_deliveroo_html returns
ParsedData(date_info_, sp) ==
    [date |-> date_info_,
     restaurant |-> extract_restaurant_info(sp).info,
     client |-> extract_client_info(sp).info,
     commande |-> [numero |-> extract_order_info(sp).numero],
     articles |-> extract_items(sp),
     totaux |-> extract_totals(sp)]

\* the rest of parse_deliveroo_html once the file is read
AfterRead(date, sp) ==
    IF date.raised THEN [raised |-> TRUE, value |-> None]
    ELSE [raised |-> FALSE, value |-> ParsedData(date.value, sp)]

\* the outcome of parse_deliveroo_html: the parsed data, or an exception
parse_deliveroo_html(file) ==
    IF ~file.readable THEN [raised |-> TRUE, value |-> None]
    ELSE AfterRead(extract_date_from_filename(file.name), file.soup)

OrderItem(item) == [name |-> item.nom, price |-> item.prix, quantity |-> item.quantite]

Party(info) == [name |-> info.nom, address |-> info.address, city |-> info.city,
                postal_code |-> info.postal_code, phone_number |-> info.telephone]

\* json_data
JsonData(parsed_data) ==
    [Order |-> [number |-> parsed_data.commande.numero,
                total_paid |-> parsed_data.totaux.total,
                delivery_fee |-> parsed_data.totaux.frais_livraison,
                datetime |-> IF parsed_data.date # None
                             THEN Raw(parsed_data.date[2]) ELSE None],
     OrderItems |-> [k \in 1..Len(parsed_data.articles) |->
                       OrderItem(parsed_data.articles[k])],
     Restaurant |-> Party(parsed_data.restaurant),
     Customer |-> Party(parsed_data.client)]

\* an exception of parse_deliveroo_html passes through generate_order_json
Returned(r) == IF r.raised THEN r ELSE [raised |-> FALSE, value |-> JsonData(r.value)]

generate_order_json(file) == Returned(parse_deliveroo_html(file))

(***************************************************************************)
(* process_all_orders, one file per step                                   *)
(***************************************************************************)
\* f.endswith('.html')
EndsWithHtml(name) ==
    LET e == name.ending
    IN Len(e) >= 5 /\ SubSeq(e, Len(e) - 4, Len(e)) = <<".", "h", "t", "m", "l">>

ListFiles ==
    /\ pc = "process_all_orders"
    /\ html_files' = SelectSeq(directory, LAMBDA f : EndsWithHtml(f.name))
    /\ pc' = "for"
    /\ UNCHANGED <<directory, file_i, all_orders, printed, output_file,
                   soup, addrVars, partyVars, orderVars, rowVars, dateVars, scriptVars>>

\* the loop body without its try/except: an exception ends the batch
ProcessFile_no_except ==
    /\ pc = "for"
    /\ file_i < Len(html_files)
    /\ \E order_data \in {generate_order_json(html_files[file_i + 1])} :
          IF order_data.raised
          THEN /\ pc' = "raised"
               /\ UNCHANGED <<all_orders, file_i>>
          ELSE /\ all_orders' = Append(all_orders, order_data.value)
               /\ file_i' = file_i + 1
               /\ UNCHANGED pc
    /\ UNCHANGED <<printed, directory, html_files, output_file,
                   soup, addrVars, partyVars, orderVars, rowVars, dateVars, scriptVars>>

\* one iteration of the loop: generate_order_json under try/except Exception
ProcessFile ==
    /\ pc = "for"
    /\ file_i < Len(html_files)
    /\ \E order_data \in {generate_order_json(html_files[file_i + 1])} :
          IF order_data.raised
          THEN /\ printed' = Append(printed, html_files[file_i + 1].name)
               /\ UNCHANGED all_orders
          ELSE /\ all_orders' = Append(all_orders, order_data.value)
               /\ UNCHANGED printed
    /\ file_i' = file_i + 1
    /\ UNCHANGED <<pc, directory, html_files, output_file,
                   soup, addrVars, partyVars, orderVars, rowVars, dateVars, scriptVars>>

WriteOutput ==
    /\ pc = "for"
    /\ file_i = Len(html_files)
    /\ output_file' = Append(output_file, [orders |-> all_orders])
    /\ pc' = "done"
    /\ UNCHANGED <<directory, html_files, file_i, all_orders, printed,
                   soup, addrVars, partyVars, orderVars, rowVars, dateVars, scriptVars>>

NextBatch == ListFiles \/ ProcessFile \/ WriteOutput

(***************************************************************************)
(* Directories of the model: up to MaxFiles entries with different names.  *)
(***************************************************************************)
MaxFiles == 3

FileName(day, year, ending) ==
    [tokens |-> << <<"M", "o", "n">>, day, <<"J", "a", "n">>, year, <<"0">>, <<"5", "9">>, <<"5", "9">> >>, ending |-> ending]

OrderHeading == <<"C", "o", "m", "m", "a", "n", "d", "e", " ", "n", " ", "1", "2">>

GoodFile == [name |-> FileName(<<"1">>, <<"2", "0", "2", "4">>, Ending), readable |-> TRUE,
             soup |-> EmptySoup]
OtherGoodFile == [name |-> FileName(<<"2", "9">>, <<"2", "0", "2", "4">>, Ending), readable |-> TRUE,
                  soup |-> [EmptySoup EXCEPT !.h2_tags = <<OrderHeading>>,
                                             !.all_trs = <<PricedTotalRow(TwelveFifty)>>]]
UndatedFile == [name |-> FileName(<<"3", "0">>, <<"2", "0", "2", "4">>, <<".", "h", "t", "m", "l">>), readable |-> TRUE,
                soup |-> EmptySoup]
OverflowFile == [name |-> FileName(<<"1">>, <<"2", "1", "4", "7", "4", "8", "3", "6", "4", "8">>, Ending), readable |-> TRUE,
                 soup |-> EmptySoup]
UnreadableFile == [name |-> FileName(<<"3", "1">>, <<"2", "0", "2", "4">>, Ending), readable |-> FALSE,
                   soup |-> EmptySoup]
TextFile == [name |-> FileName(<<"1">>, <<"2", "0", "2", "3">>, <<".", "t", "x", "t">>), readable |-> TRUE,
             soup |-> EmptySoup]

DirEntrySet == {GoodFile, OtherGoodFile, UndatedFile, OverflowFile,
                UnreadableFile, TextFile}

Distinct(seq) == \A i, j \in 1..Len(seq) : i # j => seq[i] # seq[j]

InitBatch ==
    /\ pc = "process_all_orders"
    /\ directory \in {d \in SeqsUpTo(DirEntrySet, MaxFiles) : Distinct(d)}
    /\ html_files = <<>> /\ file_i = 0
    /\ all_orders = <<>> /\ printed = <<>> /\ output_file = <<>>
    /\ soup = EmptySoup
    /\ AddrIdle /\ PartyIdle /\ OrderIdle /\ RowsIdle /\ DateIdle
    /\ ScriptsIdle

SpecBatch == InitBatch /\ [][NextBatch]_vars

\* the files of the model on which extraction fails
Fails(file) == file \in {OverflowFile, UnreadableFile}

\* the entries of the directory that the batch enumerates
Enumerated == SelectSeq(directory, LAMBDA f : f # TextFile)

\* C10: a failing file is logged and skipped, every later file is still
\* processed, the orders are the records of the files that succeeded, in
\* enumeration order, and the output file is written once, at the end.
C10_BatchContinues ==
    /\ pc # "raised"
    /\ pc # "done" => output_file = <<>>
    /\ pc \in {"for", "done"} =>
          LET seen == [k \in 1..file_i |-> Enumerated[k]]
              good == SelectSeq(seen, LAMBDA f : ~Fails(f))
              bad == SelectSeq(seen, Fails)
          IN /\ Len(all_orders) = Len(good)
             /\ \A k \in 1..Len(good) :
                   all_orders[k] = generate_order_json(good[k]).value
             /\ printed = [k \in 1..Len(bad) |-> bad[k].name]
    /\ pc = "done" =>
          /\ file_i = Len(Enumerated)
          /\ output_file = <<[orders |-> all_orders]>>

\* a file that fails, a file that succeeds after it, and another that fails
C10_Witness ==
    /\ pc = "done"
    /\ directory = <<UnreadableFile, GoodFile, OverflowFile>>
    /\ Len(all_orders) = 1
    /\ Len(printed) = 2
    /\ Len(output_file) = 1

(***************************************************************************)
(* Documents of the customer's heading fallback: up to MaxGreetings        *)
(* headings and up to one info table.                                      *)
(***************************************************************************)
MaxGreetings == 2

Bob == <<"B", "o", "b">>

GreetingHeadingSet ==
    { Greeting \o <<",", " ">> \o Bob,
      <<" ">> \o Greeting \o <<",", " ", " ", "A", "l", " ">>,
      <<"M", "e", "r", "c", "i", " ">> \o Greeting \o <<",", " ">> \o Bob,
      Greeting \o <<" ">> \o Bob,
      Greeting \o <<",">>,
      <<"B", "o", "n", "j", "o", "u", "r">> }

GreetingTableSet ==
    [markup : { {"align=left"}, {"align=right"} },
     bold : { <<>>, << <<" ", "B", "o">> >>, << <<" ">>, <<"A", "l">> >> },
     muted : MutedSet]

InitGreeting ==
    /\ pc = "extract_client_info"
    /\ \E tables \in SeqsUpTo(GreetingTableSet, 1),
          h2_tags \in SeqsUpTo(GreetingHeadingSet, MaxGreetings) :
          soup = [EmptySoup EXCEPT !.tables = tables, !.h2_tags = h2_tags]
    /\ PartyIdle
    /\ AddrIdle
    /\ OrderIdle
    /\ RowsIdle
    /\ DateIdle
    /\ BatchIdle
    /\ ScriptsIdle

NextGreeting == ExtractClient

SpecGreeting == InitGreeting /\ [][NextGreeting]_vars

\* the first heading that contains the greeting phrase, 0 when there is none
GreetingHeading ==
    LET with == {k \in 1..Len(soup.h2_tags) : Contains(soup.h2_tags[k], Greeting)}
    IN IF with = {} THEN 0 ELSE CHOOSE k \in with : \A j \in with : k <= j

\* the text that follows the greeting phrase and its comma in a heading
NameAfterGreeting(h) ==
    LET i == CHOOSE k \in 1..Len(h) :
                 MatchAt(h, k, Greeting) /\ \A j \in 1..(k - 1) : ~MatchAt(h, j, Greeting)
        rest == SubSeq(h, i + Len(Greeting), Len(h))
    IN NormalText(IF rest # <<>> /\ Head(rest) = "," THEN Tail(rest) ELSE rest)

\* the address fields of a party
AddressFields(info) == [address |-> info.address, city |-> info.city,
                        postal_code |-> info.postal_code]

\* C11 as claimed: the greeting is used only when no table gave a name, the
\* name is then the text that follows the greeting phrase in the first
\* heading containing it and every other field stays null; the three
\* address fields are set together, from the address lines of one table.
C11_GreetingFallback ==
    pc = "done" =>
       /\ client_block # 0 =>
             /\ client_info.nom = NormalText(soup.tables[client_block].bold[1])
             /\ AddressFields(client_info) \in
                   {AddressFields(FillParty(EmptyParty, client_info.nom, t)) :
                       t \in {soup.tables[client_block]}}
       /\ client_block = 0 =>
             /\ AddressFields(client_info) = AddressFields(EmptyParty)
             /\ client_info.telephone = None
             /\ IF GreetingHeading = 0 THEN client_info.nom = None
                ELSE client_info.nom = NameAfterGreeting(soup.h2_tags[GreetingHeading])

(***************************************************************************)
(* clean_text applied to a text and then to its own result: texts of up to *)
(* MaxTextLen characters, with either setting of remove_emojis.            *)
(***************************************************************************)
MaxTextLen == 3

TextAlphabet == {"e", "acute", "e_acute", "emoji", " ", "\t", "a"}

InitClean ==
    /\ pc = "clean_text"
    /\ clean_in \in {None} \cup SeqsUpTo(TextAlphabet, MaxTextLen)
    /\ clean_flag \in BOOLEAN
    /\ clean_out = None /\ clean_again = None
    /\ soup = EmptySoup
    /\ AddrIdle /\ PartyIdle /\ OrderIdle /\ RowsIdle /\ DateIdle /\ BatchIdle
    /\ CrawlIdle /\ SlackIdle /\ RecordIdle

CleanText ==
    /\ pc = "clean_text"
    /\ clean_out' = clean_text(clean_in, clean_flag)
    /\ pc' = "clean_text_again"
    /\ UNCHANGED <<clean_in, clean_flag, clean_again, soup, addrVars, partyVars,
                   orderVars, rowVars, dateVars, batchVars, crawlVars, slackVars, recordVars>>

CleanTextAgain ==
    /\ pc = "clean_text_again"
    /\ clean_again' = clean_text(clean_out, clean_flag)
    /\ pc' = "done"
    /\ UNCHANGED <<clean_in, clean_flag, clean_out, soup, addrVars, partyVars,
                   orderVars, rowVars, dateVars, batchVars, crawlVars, slackVars, recordVars>>

NextClean == CleanText \/ CleanTextAgain

SpecClean == InitClean /\ [][NextClean]_vars

\* C12 as claimed: cleaning a cleaned text returns it unchanged, with either
\* setting of the flag, and a null or empty input is returned unchanged.
C12_Idempotent ==
    /\ pc = "done" => clean_again = clean_out
    /\ (pc # "clean_text" /\ (clean_in = None \/ clean_in = <<>>)) => clean_out = clean_in

(***************************************************************************)
(* generate_order_json on a document without any of the elements the       *)
(* extractors look for: only the file name and the text of the body vary.  *)
(***************************************************************************)
BareDaySet == { <<"1">>, <<"2", "9">>, <<"3", "0">>, <<"3", "1">>, <<"0">> }
BareYearSet == { <<"2", "0", "2", "3">>, <<"2", "0", "2", "4">>, <<"2", "1", "4", "7", "4", "8", "3", "6", "4", "8">>, <<"0">> }

BareFileSet ==
    [name : {FileName(d, y, e) : d \in BareDaySet, y \in BareYearSet, e \in EndingSet},
     readable : {TRUE},
     soup : {[EmptySoup EXCEPT !.body = b] : b \in BodySet}]

InitRecord ==
    /\ pc = "generate_order_json"
    /\ html_file_path \in BareFileSet
    /\ json_data = None
    /\ soup = EmptySoup
    /\ AddrIdle /\ PartyIdle /\ OrderIdle /\ RowsIdle /\ DateIdle /\ BatchIdle
    /\ CleanIdle /\ CrawlIdle /\ SlackIdle

GenerateOrderJson ==
    /\ pc = "generate_order_json"
    /\ \E r \in {generate_order_json(html_file_path)} :
          IF r.raised THEN pc' = "raised" /\ UNCHANGED json_data
          ELSE pc' = "done" /\ json_data' = r.value
    /\ UNCHANGED <<html_file_path, soup, addrVars, partyVars, orderVars, rowVars,
                   dateVars, batchVars, cleanVars, crawlVars, slackVars>>

NextRecord == GenerateOrderJson

SpecRecord == InitRecord /\ [][NextRecord]_vars

NullParty == [name |-> None, address |-> None, city |-> None,
              postal_code |-> None, phone_number |-> None]

\* C13 as claimed: a document with none of the queried elements gives, with
\* no exception, a record whose order number, total_paid, delivery_fee and
\* party fields are null and whose item list is empty; a null date gives a
\* null datetime.
C13_AllNullRecord ==
    /\ pc # "raised"
    /\ pc = "done" =>
          /\ json_data.Order.number = None
          /\ json_data.Order.total_paid = None
          /\ json_data.Order.delivery_fee = None
          /\ json_data.OrderItems = <<>>
          /\ json_data.Restaurant = NullParty
          /\ json_data.Customer = NullParty
          /\ extract_date_from_filename(html_file_path.name).value = None =>
                json_data.Order.datetime = None

(***************************************************************************)
(* The quotes crawler.  A site is a sequence of pages, page k at the URL   *)
(* of path k; a page is the outcome of requesting and parsing it.          *)
(***************************************************************************)
BaseUrl == <<"https:", "", "quotes.toscrape.com">>

Url(k) == <<"url", BaseUrl, k>>
\* '/'.join(url.split('/')[:3]), and the page that the rest of the URL names
Base(url) == url[2]
Path(url) == url[3]

\* the quotes of the elements that have a text
Quotes(quote_elements) == SelectSeq(quote_elements, LAMBDA q : Truthy(q.text))

\* next_link: a relative href is joined to the base of the page's URL
NextLink(url, next_href) ==
    IF next_href = None THEN None
    ELSE IF next_href[1] = "/" THEN <<"url", Base(url), next_href[2]>>
    ELSE Url(next_href[2])

\* what scrape_quotes_from_page returns for a URL of the site: three
\* components after a successful request and parse, two after a
\* RequestException or any other exception
scrape_quotes_from_page(st, url) ==
    LET page == st[Path(url)]
    IN IF page.status = "ok"
       THEN <<Quotes(page.quote_elements), NextLink(url, page.next_href),
              page.top_ten_tags>>
       ELSE <<<<>>, None>>

\* one iteration of the while loop of crawl_all_quotes; unpacking a result
\* of two components into three names raises ValueError
ScrapePage ==
    /\ pc = "while"
    /\ current_url # None
    /\ visited' = Append(visited, current_url)
    /\ \E r \in {scrape_quotes_from_page(site, current_url)} :
          IF Len(r) # 3
          THEN /\ pc' = "raised"
               /\ page_count' = page_count + 1
               /\ UNCHANGED <<all_quotes, top_ten_tags, current_url>>
          ELSE /\ page_count' = page_count + 1
               /\ all_quotes' = all_quotes \o r[1]
               /\ top_ten_tags' = IF page_count' = 1 /\ r[3] # <<>> THEN r[3]
                                   ELSE top_ten_tags
               /\ current_url' = r[2]
               /\ UNCHANGED pc
    /\ UNCHANGED <<site, returned, soup, addrVars, partyVars, orderVars, rowVars,
                   dateVars, batchVars, cleanVars, slackVars, recordVars>>

CrawlReturn ==
    /\ pc = "while"
    /\ current_url = None
    /\ returned' = <<all_quotes, top_ten_tags>>
    /\ pc' = "done"
    /\ UNCHANGED <<site, current_url, page_count, all_quotes, top_ten_tags, visited,
                   soup, addrVars, partyVars, orderVars, rowVars,
                   dateVars, batchVars, cleanVars, slackVars, recordVars>>

NextCrawl == ScrapePage \/ CrawlReturn

(***************************************************************************)
(* Sites of the model: MaxPages pages, whose next links lead forward.      *)
(***************************************************************************)
MaxPages == 3

Quote(k) == [text |-> <<"quote", k>>, author |-> <<"author", k>>, tags |-> <<>>]
Untexted(k) == [text |-> None, author |-> <<"author", k>>, tags |-> <<>>]

PageSet(k) ==
    [status : {"ok"},
     quote_elements : { <<>>, <<Quote(k), Untexted(k)>> },
     next_href : {None} \cup {<<"/", j>> : j \in (k + 1)..MaxPages}
                        \cup {<<"https:", j>> : j \in (k + 1)..MaxPages},
     top_ten_tags : { <<>>, <<<<"tag", k>>>> }]
    \cup
    [status : {"RequestException", "Exception"},
     quote_elements : { <<>> }, next_href : {None}, top_ten_tags : { <<>> }]

SiteSet == {st \in [1..MaxPages -> UNION {PageSet(k) : k \in 1..MaxPages}] :
               \A k \in 1..MaxPages : st[k] \in PageSet(k)}

InitCrawl ==
    /\ pc = "while"
    /\ site \in SiteSet
    /\ current_url = Url(1)
    /\ page_count = 0 /\ all_quotes = <<>> /\ top_ten_tags = <<>>
    /\ visited = <<>> /\ returned = None
    /\ soup = EmptySoup
    /\ AddrIdle /\ PartyIdle /\ OrderIdle /\ RowsIdle /\ DateIdle /\ BatchIdle
    /\ CleanIdle /\ SlackIdle /\ RecordIdle

SpecCrawl == InitCrawl /\ [][NextCrawl]_vars

\* the quotes of the pages visited, in the order of the visits
RECURSIVE QuotesOf(_)
QuotesOf(urls) ==
    IF urls = <<>> THEN <<>>
    ELSE Quotes(site[Path(Head(urls))].quote_elements) \o QuotesOf(Tail(urls))

\* a page has a next link: it was fetched and parsed, and links to a page
HasNext(k) == site[k].status = "ok" /\ site[k].next_href # None

\* C14 as claimed: every call of scrape_quotes_from_page yields three
\* components, failed pages included; the crawl follows the next links
\* from the start URL, stops at the first page without one (a failed page
\* has none) and returns the quotes of the visited pages in visit order with
\* the top-ten tags of the first page.
C14_CrawlChain ==
    /\ \A i \in 1..Len(visited) : Len(scrape_quotes_from_page(site, visited[i])) = 3
    /\ pc # "raised"
    /\ \A i \in 1..Len(visited) :
          /\ i = 1 => visited[i] = Url(1)
          /\ i > 1 => /\ HasNext(Path(visited[i - 1]))
                      /\ visited[i] = Url(site[Path(visited[i - 1])].next_href[2])
    /\ pc = "done" =>
          /\ visited # <<>> /\ ~HasNext(Path(visited[Len(visited)]))
          /\ returned = <<QuotesOf(visited), site[1].top_ten_tags>>

(***************************************************************************)
(* The Slack bot, listen_and_respond.  The channel holds its messages      *)
(* newest first, as conversations_history returns them; a message is a     *)
(* record of its ts, text and user, and of whether it carries a bot_id.    *)
(***************************************************************************)
HistoryLimit == 10

\* the user id of the bot
BotUser == <<"U", "0", "B">>

WikipediaPrefix == <<"W", "i", "k", "i", "p", "e", "d", "i", "a", ":">>

\* re.match(r'^Wikipedia:\s*(.+)$', text, re.IGNORECASE): the prefix in any
\* case, then at least one character, none of them a line break
WikipediaMatch(text) ==
    /\ Len(text) > Len(WikipediaPrefix)
    /\ FoldText(SubSeq(text, 1, Len(WikipediaPrefix))) = FoldText(WikipediaPrefix)
    /\ \A i \in (Len(WikipediaPrefix) + 1)..Len(text) : text[i] # "\n"

\* match.group(1).strip()
Title(text) == Strip(SubSeq(text, Len(WikipediaPrefix) + 1, Len(text)))

\* f"{message.get('ts', '')}:{text}"
MessageId(message) == message.ts \o <<":">> \o message.text

\* the text of the reply, with the paragraph found or without one
ReplyText(title, paragraph) ==
    IF Truthy(paragraph)
    THEN <<"*">> \o title \o <<"*", "\n", "\n">> \o paragraph
    ELSE <<"c_cedilla", "a", " ", "m", "a", "r", "c", "h", "e", " ", "p", "a", "s", " ", "p", "o", "u", "r", " ", "'">> \o title \o <<"'", " ", ":", "(">>

\* what the channel holds once the bot's message is delivered
Delivered(text) ==
    <<[ts |-> ToText(Len(channel) + 1), text |-> text, user |-> bot_user_id,
       bot_id |-> TRUE]>> \o channel

\* client.auth_test().get('user_id', ''), which may raise
AuthTest ==
    /\ pc = "auth_test"
    /\ \/ bot_user_id' = BotUser /\ pc' = "while"
       \/ pc' = "raised" /\ UNCHANGED bot_user_id
    /\ UNCHANGED <<channel, processed_messages, history_result, msg_i, replies,
                   soup, addrVars, partyVars, orderVars, rowVars, dateVars,
                   batchVars, cleanVars, crawlVars, recordVars>>

\* conversations_history: the newest messages, or ok false, or an exception
\* caught at the end of the loop body; after the last two the bot sleeps and
\* polls again
Poll ==
    /\ pc = "while"
    /\ \/ /\ history_result' = SubSeq(channel, 1,
                                       IF Len(channel) < HistoryLimit THEN Len(channel)
                                       ELSE HistoryLimit)
          /\ msg_i' = 0
          /\ pc' = "for"
       \/ /\ history_result' = <<>>
          /\ msg_i' = 0
          /\ pc' = "while"
    /\ UNCHANGED <<channel, bot_user_id, processed_messages, replies,
                   soup, addrVars, partyVars, orderVars, rowVars, dateVars,
                   batchVars, cleanVars, crawlVars, recordVars>>

\* the loop body for one message, without the memory of processed messages
HandleMessage_no_memory ==
    /\ pc = "for"
    /\ msg_i < Len(history_result)
    /\ \E message \in {history_result[msg_i + 1]} :
          IF message.bot_id \/ message.user = bot_user_id \/ ~WikipediaMatch(message.text)
          THEN /\ msg_i' = msg_i + 1
               /\ UNCHANGED <<pc, channel, processed_messages, replies>>
          ELSE /\ processed_messages' = processed_messages \cup {MessageId(message)}
               /\ \E paragraph \in {None, <<"P">>}, posted \in BOOLEAN, raised \in BOOLEAN :
                     /\ (posted \/ raised)
                     /\ IF posted
                        THEN /\ channel' = Delivered(ReplyText(Title(message.text), paragraph))
                             /\ replies' = Append(replies, message)
                        ELSE UNCHANGED <<channel, replies>>
                     /\ IF raised
                        THEN pc' = "while" /\ msg_i' = 0
                        ELSE msg_i' = msg_i + 1 /\ UNCHANGED pc
    /\ UNCHANGED <<bot_user_id, history_result,
                   soup, addrVars, partyVars, orderVars, rowVars, dateVars,
                   batchVars, cleanVars, crawlVars, recordVars>>

\* the loop body for one message of the result; chat_postMessage may raise,
\* with the message delivered or not, which ends the loop over the result
HandleMessage ==
    /\ pc = "for"
    /\ msg_i < Len(history_result)
    /\ \E message \in {history_result[msg_i + 1]} :
          IF \/ message.bot_id \/ message.user = bot_user_id
             \/ ~WikipediaMatch(message.text)
             \/ MessageId(message) \in processed_messages
          THEN /\ msg_i' = msg_i + 1
               /\ UNCHANGED <<pc, channel, processed_messages, replies>>
          ELSE /\ processed_messages' = processed_messages \cup {MessageId(message)}
               /\ \E paragraph \in {None, <<"P">>}, posted \in BOOLEAN, raised \in BOOLEAN :
                     /\ (posted \/ raised)
                     /\ IF posted
                        THEN /\ channel' = Delivered(ReplyText(Title(message.text), paragraph))
                             /\ replies' = Append(replies, message)
                        ELSE UNCHANGED <<channel, replies>>
                     /\ IF raised
                        THEN pc' = "while" /\ msg_i' = 0
                        ELSE msg_i' = msg_i + 1 /\ UNCHANGED pc
    /\ UNCHANGED <<bot_user_id, history_result,
                   soup, addrVars, partyVars, orderVars, rowVars, dateVars,
                   batchVars, cleanVars, crawlVars, recordVars>>

\* the end of the for loop: time.sleep(2) and the next poll
EndFor ==
    /\ pc = "for"
    /\ msg_i = Len(history_result)
    /\ pc' = "while"
    /\ UNCHANGED <<slackVars, soup, addrVars, partyVars, orderVars, rowVars, dateVars,
                   batchVars, cleanVars, crawlVars, recordVars>>

\* KeyboardInterrupt: break
Interrupt ==
    /\ pc \in {"while", "for"}
    /\ pc' = "done"
    /\ UNCHANGED <<slackVars, soup, addrVars, partyVars, orderVars, rowVars, dateVars,
                   batchVars, cleanVars, crawlVars, recordVars>>

(***************************************************************************)
(* The channel's other authors post up to MaxPosts messages while the bot  *)
(* runs.                                                                   *)
(***************************************************************************)
MaxPosts == 2

PostTextSet == { <<"W", "i", "k", "i", "p", "e", "d", "i", "a", ":", " ", "P", "a", "r", "i", "s">>, <<"w", "i", "k", "i", "p", "e", "d", "i", "a", ":", "P", "a", "r", "i", "s">>, <<"W", "i", "k", "i", "p", "e", "d", "i", "a", ":">>, <<"H", "e", "l", "l", "o">> }

AuthorSet == { [user |-> <<"U", "0", "1">>, bot_id |-> FALSE],
               [user |-> <<"U", "0", "2">>, bot_id |-> TRUE],
               [user |-> BotUser, bot_id |-> FALSE] }

ChannelPost ==
    /\ pc \in {"while", "for"}
    /\ Len(channel) - Len(replies) < MaxPosts
    /\ \E text \in PostTextSet, author \in AuthorSet :
          channel' = <<[ts |-> ToText(Len(channel) + 1), text |-> text,
                        user |-> author.user, bot_id |-> author.bot_id]>> \o channel
    /\ UNCHANGED <<pc, bot_user_id, processed_messages, history_result, msg_i, replies,
                   soup, addrVars, partyVars, orderVars, rowVars, dateVars,
                   batchVars, cleanVars, crawlVars, recordVars>>

InitSlack ==
    /\ pc = "auth_test"
    /\ channel = <<>> /\ bot_user_id = None /\ processed_messages = {}
    /\ history_result = <<>> /\ msg_i = 0 /\ replies = <<>>
    /\ soup = EmptySoup
    /\ AddrIdle /\ PartyIdle /\ OrderIdle /\ RowsIdle /\ DateIdle /\ BatchIdle
    /\ CleanIdle /\ CrawlIdle /\ RecordIdle

NextSlack == AuthTest \/ Poll \/ HandleMessage \/ EndFor \/ Interrupt \/ ChannelPost

SpecSlack == InitSlack /\ [][NextSlack]_vars

\* C15: no two replies answer the same message (same ts and text), every
\* reply answers a message that asks for a Wikipedia title, and none
\* answers a message that carries a bot_id or that the bot's own user wrote.
C15_OneReplyPerMessage ==
    /\ \A i, j \in 1..Len(replies) :
          (replies[i].ts = replies[j].ts /\ replies[i].text = replies[j].text) => i = j
    /\ \A i \in 1..Len(replies) :
          /\ WikipediaMatch(replies[i].text)
          /\ ~replies[i].bot_id
          /\ replies[i].user # BotUser

\* a message was answered once and then seen again by a later poll, after
\* messages of a bot and of the bot's own user were passed over
C15_Witness ==
    /\ pc = "for" /\ msg_i = Len(history_result)
    /\ Len(replies) = 1
    /\ MessageId(replies[1]) \in processed_messages
    /\ \E k \in 1..Len(history_result) : history_result[k] = replies[1]
    /\ \E k \in 1..Len(history_result) :
          /\ history_result[k].ts = ToText(Len(channel))
          /\ history_result[k].bot_id
    /\ \E k \in 1..Len(history_result) :
          /\ ~history_result[k].bot_id /\ history_result[k].user = BotUser
          /\ WikipediaMatch(history_result[k].text)

====
